---- MODULE Spec2Model ----
(***************************************************************************)
(* Model of jlewallen/birbs:                                               *)
(*   - BirdLog::watch        (src/src/publish.rs)  the log tailer          *)
(*   - BirdLog::publish_all  (src/src/publish.rs)  the batch publisher     *)
(*   - check_*_available     (src/src/serve.rs, src/src/main.rs)           *)
(*   - BirdDateAndTime       (src/src/main.rs)     civil time resolution   *)
(***************************************************************************)
EXTENDS Integers, Sequences, FiniteSets, TLC

(***************************************************************************)
(* Bounds of the model.                                                    *)
(***************************************************************************)
MaxFileLen == 4
MaxWrites == 3
MaxChunk == 2
MaxFiles == 6
DaysAround == 1
MaxLines == 3

(***************************************************************************)
(* Bytes of the watched file.                                              *)
(***************************************************************************)
NL == "\n"
Alphabet == {"a", "b", NL}

VARIABLES
    \* ---- BirdLog::watch ----
    file,        \* content of the file at self.path, a sequence of bytes
    rx,          \* std::sync::mpsc channel from the watcher: events in flight
    wpc,         \* position of watch(): start, wait, check, seek, len, read, exit
    pos,         \* local `pos` of watch()
    foff,        \* offset of the open handle `f`
    carry,       \* bytes BufReader::lines has read but not yet yielded
    out,         \* lines printed by println!("> {:?}", ...)
    wstatus,     \* running | failed (watch returned Err) | panicked
    nwrites,     \* number of writer / watcher operations so far
    onlyLines,   \* history: every append so far ended with a newline
    shrunk,      \* history: the file was truncated after the watch started
    startLen,    \* history: length of the file when the watch started
    seenShrunk,  \* history: a notification found the length below pos
    prevRead,    \* history: offsets read while handling earlier notifications
    curRead,     \* history: offsets read while handling this notification
    cancel,      \* an external cancellation signal has been raised
    \* ---- check_files_available / check_available ----
    variant,     \* which checker runs: "serve" (serve.rs) or "main" (main.rs)
    files,       \* the input Vec<FilesFor>
    nextIn,      \* index of the next element stream::iter will yield
    nextOut,     \* index of the next output Buffered may yield
    inprog,      \* Buffered's queue: index -> future of check_file_available
    collected,   \* the Vec being built by collect()
    apc,         \* running | returned
    probes,      \* history: outcome of each HEAD request, per candidate
    outOfOrder,  \* history: a check finished before an earlier one did
    \* ---- BirdDateAndTime ----
    tdate,       \* the NaiveDate given: day of the year 2023
    ttime,       \* the NaiveTime given: minute of the day
    tpc,         \* input | done
    tres,        \* what the constructor came back with
    \* ---- BirdLog::publish_all ----
    plines,      \* the items io::Lines yields for the file, header first
    pidx,        \* index of the next item of the iterator
    ppc,         \* start | loop | writing | exit
    pstatus,     \* running | ok | failed_open | failed_parse |
                 \* failed_publish | panicked
    pending,     \* the points handed to the client.write being awaited
    written,     \* the points the sink has accepted, in order
    attempts     \* history: the points client.write was called with

wvars == <<file, rx, wpc, pos, foff, carry, out, wstatus, nwrites, onlyLines,
           shrunk, startLen, seenShrunk, prevRead, curRead, cancel>>

avars == <<variant, files, nextIn, nextOut, inprog, collected, apc, probes,
           outOfOrder>>

tvars == <<tdate, ttime, tpc, tres>>

pvars == <<plines, pidx, ppc, pstatus, pending, written, attempts>>

vars == <<wvars, avars, tvars, pvars>>

\* the variables each part of the program leaves alone
notW == <<avars, tvars, pvars>>

notA == <<wvars, tvars, pvars>>

notT == <<wvars, avars, pvars>>

notP == <<wvars, avars, tvars>>

(***************************************************************************)
(* Helpers on sequences.                                                   *)
(***************************************************************************)
Drop(s, n) == IF n >= Len(s) THEN <<>> ELSE SubSeq(s, n + 1, Len(s))

Take(s, n) == IF n >= Len(s) THEN s ELSE SubSeq(s, 1, n)

RECURSIVE SeqsUpTo(_, _)
SeqsUpTo(S, n) ==
    IF n = 0 THEN {<<>>}
    ELSE LET shorter == SeqsUpTo(S, n - 1)
         IN  shorter \cup {Append(s, c) : s \in shorter, c \in S}

\* what a writer may append in one write
Chunks == SeqsUpTo(Alphabet, MaxChunk) \ {<<>>}

\* files that exist when the watch starts
InitFiles == {<<>>, <<"a", NL>>}

(***************************************************************************)
(* std::io::BufRead::lines as used at publish.rs:69-72: the complete lines *)
(* of `buf` (newline stripped), and the unterminated rest.                 *)
(***************************************************************************)
RECURSIVE CompleteLines(_, _)
CompleteLines(buf, cur) ==
    IF buf = <<>> THEN <<>>
    ELSE IF Head(buf) = NL THEN <<cur>> \o CompleteLines(Tail(buf), <<>>)
    ELSE CompleteLines(Tail(buf), Append(cur, Head(buf)))

RECURSIVE Remainder(_, _)
Remainder(buf, cur) ==
    IF buf = <<>> THEN cur
    ELSE IF Head(buf) = NL THEN Remainder(Tail(buf), <<>>)
    ELSE Remainder(Tail(buf), Append(cur, Head(buf)))

(***************************************************************************)
(* BirdLog::watch, publish.rs:50-79.                                       *)
(***************************************************************************)
WInit ==
    /\ file \in InitFiles
    /\ rx = <<>>
    /\ wpc = "start"
    /\ pos = 0
    /\ foff = 0
    /\ carry = <<>>
    /\ out = <<>>
    /\ wstatus = "running"
    /\ nwrites = 0
    /\ onlyLines = TRUE
    /\ shrunk = FALSE
    /\ startLen = 0
    /\ seenShrunk = FALSE
    /\ prevRead = {}
    /\ curRead = {}
    /\ cancel = FALSE

\* publish.rs:65: the offset watch() seeks to
SeekTarget(p) == p + 1

\* publish.rs:51-56: open the file, record its length, set up the watcher
WatchStart ==
    /\ wpc = "start"
    /\ wpc' = "wait"
    /\ pos' = Len(file)
    /\ foff' = 0
    /\ startLen' = Len(file)
    /\ UNCHANGED <<file, rx, carry, out, wstatus, nwrites, onlyLines, shrunk,
                   seenShrunk, prevRead, curRead>>
    /\ UNCHANGED cancel
    /\ UNCHANGED notW

\* publish.rs:51-56: any of the four `?` of the setup fails
WatchStartFail ==
    /\ wpc = "start"
    /\ wpc' = "exit"
    /\ wstatus' = "failed"
    /\ UNCHANGED <<file, rx, pos, foff, carry, out, nwrites, onlyLines, shrunk,
                   startLen, seenShrunk, prevRead, curRead>>
    /\ UNCHANGED cancel
    /\ UNCHANGED notW

\* publish.rs:58-59: `for res in rx` receives the next notification
Recv ==
    /\ wpc = "wait"
    /\ rx # <<>>
    /\ rx' = Tail(rx)
    /\ prevRead' = prevRead \cup curRead
    /\ curRead' = {}
    /\ IF Head(rx) = "ok"
         THEN wpc' = "check"           \* Ok(_event)
         ELSE wpc' = "wait"            \* Err(error) => println!
    /\ UNCHANGED <<file, pos, foff, carry, out, wstatus, nwrites, onlyLines,
                   shrunk, startLen, seenShrunk>>
    /\ UNCHANGED cancel
    /\ UNCHANGED notW

\* publish.rs:61-63: if f.metadata()?.len() == pos { continue; }
CheckLen ==
    /\ wpc = "check"
    /\ wpc' = IF Len(file) = pos THEN "wait" ELSE "seek"
    /\ seenShrunk' = (seenShrunk \/ Len(file) < pos)
    /\ UNCHANGED <<file, rx, pos, foff, carry, out, wstatus, nwrites,
                   onlyLines, shrunk, startLen, prevRead, curRead>>
    /\ UNCHANGED cancel
    /\ UNCHANGED notW

\* publish.rs:65: f.seek(SeekFrom::Start(pos + 1))?
Seek ==
    /\ wpc = "seek"
    /\ foff' = SeekTarget(pos)
    /\ wpc' = "len"
    /\ UNCHANGED <<file, rx, pos, carry, out, wstatus, nwrites, onlyLines,
                   shrunk, startLen, seenShrunk, prevRead, curRead>>
    /\ UNCHANGED cancel
    /\ UNCHANGED notW

\* publish.rs:67: pos = f.metadata()?.len()
SampleLen ==
    /\ wpc = "len"
    /\ pos' = Len(file)
    /\ wpc' = "read"
    /\ carry' = <<>>                   \* publish.rs:69: BufReader::new(&f)
    /\ UNCHANGED <<file, rx, foff, out, wstatus, nwrites, onlyLines, shrunk,
                   startLen, seenShrunk, prevRead, curRead>>
    /\ UNCHANGED cancel
    /\ UNCHANGED notW

\* publish.rs:70-72: BufReader fills its buffer with everything up to the
\* current end of file; every complete line in it is printed
ReadFill ==
    /\ wpc = "read"
    /\ foff < Len(file)
    /\ LET data == carry \o SubSeq(file, foff + 1, Len(file))
       IN  /\ out' = out \o CompleteLines(data, <<>>)
           /\ carry' = Remainder(data, <<>>)
    /\ curRead' = curRead \cup ((foff + 1) .. Len(file))
    /\ foff' = Len(file)
    /\ UNCHANGED <<file, rx, wpc, pos, wstatus, nwrites, onlyLines, shrunk,
                   startLen, seenShrunk, prevRead>>
    /\ UNCHANGED cancel
    /\ UNCHANGED notW

\* publish.rs:70-72: a read returns 0 bytes: an unterminated rest is yielded
\* as a line, then the iterator ends and the loop waits for the next event
ReadEof ==
    /\ wpc = "read"
    /\ foff >= Len(file)
    /\ IF carry # <<>>
         THEN /\ out' = Append(out, carry)
              /\ carry' = <<>>
              /\ wpc' = "read"
         ELSE /\ wpc' = "wait"
              /\ UNCHANGED <<out, carry>>
    /\ UNCHANGED <<file, rx, pos, foff, wstatus, nwrites, onlyLines, shrunk,
                   startLen, seenShrunk, prevRead, curRead>>
    /\ UNCHANGED cancel
    /\ UNCHANGED notW

\* publish.rs:61,65,67: a `?` on metadata or seek returns the error from watch
IoFail ==
    /\ wpc \in {"check", "seek", "len"}
    /\ wpc' = "exit"
    /\ wstatus' = "failed"
    /\ UNCHANGED <<file, rx, pos, foff, carry, out, nwrites, onlyLines, shrunk,
                   startLen, seenShrunk, prevRead, curRead>>
    /\ UNCHANGED cancel
    /\ UNCHANGED notW

\* publish.rs:71: line.unwrap() on a failed line read panics
ReadFail ==
    /\ wpc = "read"
    /\ wpc' = "exit"
    /\ wstatus' = "panicked"
    /\ UNCHANGED <<file, rx, pos, foff, carry, out, nwrites, onlyLines, shrunk,
                   startLen, seenShrunk, prevRead, curRead>>
    /\ UNCHANGED cancel
    /\ UNCHANGED notW

(***************************************************************************)
(* The environment of watch(): a writer of the file and the notify watcher *)
(* that sends one event per change (publish.rs:54-56).                     *)
(***************************************************************************)
WriterAppend ==
    /\ wpc # "start"
    /\ nwrites < MaxWrites
    /\ \E chunk \in Chunks :
         /\ Len(file) + Len(chunk) <= MaxFileLen
         /\ file' = file \o chunk
         /\ onlyLines' = (onlyLines /\ chunk[Len(chunk)] = NL)
    /\ rx' = Append(rx, "ok")
    /\ nwrites' = nwrites + 1
    /\ UNCHANGED <<wpc, pos, foff, carry, out, wstatus, shrunk, startLen,
                   seenShrunk, prevRead, curRead>>
    /\ UNCHANGED cancel
    /\ UNCHANGED notW

WriterTruncate ==
    /\ wpc # "start"
    /\ nwrites < MaxWrites
    /\ \E n \in 0 .. (Len(file) - 1) : file' = Take(file, n)
    /\ shrunk' = TRUE
    /\ rx' = Append(rx, "ok")
    /\ nwrites' = nwrites + 1
    /\ UNCHANGED <<wpc, pos, foff, carry, out, wstatus, onlyLines, startLen,
                   seenShrunk, prevRead, curRead>>
    /\ UNCHANGED cancel
    /\ UNCHANGED notW

WatcherError ==
    /\ wpc # "start"
    /\ nwrites < MaxWrites
    /\ rx' = Append(rx, "err")
    /\ nwrites' = nwrites + 1
    /\ UNCHANGED <<file, wpc, pos, foff, carry, out, wstatus, onlyLines,
                   shrunk, startLen, seenShrunk, prevRead, curRead>>
    /\ UNCHANGED cancel
    /\ UNCHANGED notW

\* the environment asks the running watch to stop; watch() takes no stop
\* signal and `for res in rx` (publish.rs:58) waits on the channel only, so
\* no step of watch() reads the request
Cancel ==
    /\ wpc \notin {"start", "exit"}
    /\ ~cancel
    /\ cancel' = TRUE
    /\ UNCHANGED <<file, rx, wpc, pos, foff, carry, out, wstatus, nwrites,
                   onlyLines, shrunk, startLen, seenShrunk, prevRead, curRead>>
    /\ UNCHANGED notW

\* the steps watch() itself takes when it is scheduled
WatchStep ==
    \/ WatchStart
    \/ Recv
    \/ CheckLen
    \/ Seek
    \/ SampleLen
    \/ ReadFill
    \/ ReadEof

WNext ==
    \/ WatchStart
    \/ WatchStartFail
    \/ Recv
    \/ CheckLen
    \/ Seek
    \/ SampleLen
    \/ ReadFill
    \/ ReadEof
    \/ IoFail
    \/ ReadFail
    \/ WriterAppend
    \/ WriterTruncate
    \/ WatcherError
    \/ Cancel

(***************************************************************************)
(* Properties of the tailer.                                               *)
(***************************************************************************)
\* what has been appended to the file since the watch started
Appended == Drop(file, startLen)

\* the tailer has handled every notification sent so far
Quiescent == wstatus = "running" /\ wpc = "wait" /\ rx = <<>>

\* C1: when only complete newline-terminated lines have been appended since
\* the watch started and every notification has been handled, the lines
\* emitted are exactly the appended lines, in order, each once.
C1_EmitsAppendedLines ==
    (Quiescent /\ onlyLines /\ ~shrunk)
        => out = CompleteLines(Appended, <<>>)

\* C2: when the reader reaches end of file holding an unterminated rest of a
\* line, that step emits nothing: the partial line stays unconsumed until a
\* later append supplies its newline.
C2_PartialLineNotEmitted ==
    [][(wstatus = "running" /\ wpc = "read" /\ foff >= Len(file)
            /\ carry # <<>>) => out' = out]_vars

\* C3: under every interleaving of appends with the tailer's steps, no byte
\* of the file is read for the output of two different notifications.
C3_NoRedelivery ==
    ~shrunk => (curRead \cap prevRead = {})

\* C4: once a notification has found the file shorter than the cursor, the
\* watch is in the explicit FileShrunk condition.
C4_FileShrunkSurfaced ==
    seenShrunk => wstatus = "FileShrunk"

\* C11: in watch mode every line the tailer delivers for an append is
\* parsed and handed to the sink as one point: once the notifications are
\* handled the sink has been given as many points as lines were delivered.
C11_WatchPublishesEachLine ==
    Quiescent => Len(attempts) = Len(out)

\* C14: once a cancellation signal is raised, the watch eventually leaves
\* its wait for notifications and returns (a clean return is one such
\* return: the formula asks only that the loop ends at all).
C14_CancelEndsWatch ==
    cancel ~> (wpc = "exit")

\* C15: once the watcher is set up, no step of the loop ends it: whatever
\* fails, the watch is still running afterwards.
C15_LoopSurvivesErrors ==
    [][(wpc \notin {"start", "exit"})
           => (wpc' # "exit" /\ wstatus' = "running")]_vars

\* C16: the read of a notification starts at the byte offset equal to the
\* cursor, not one byte past it.
C16_SeeksToCursor ==
    (wstatus = "running" /\ wpc = "len") => foff = pos

\* C17: the cursor changes only in a step that reads new content, and then
\* to the end-of-file position that read reached; a spurious notification
\* emits nothing and leaves the cursor alone.
C17_CursorMovesOnlyOnRead ==
    [][/\ (wpc # "start" /\ pos' # pos)
            => (wpc = "read" /\ foff' > foff /\ pos' = foff')
       /\ (wpc = "check" /\ wpc' = "wait")
            => (out' = out /\ pos' = pos)]_vars

(***************************************************************************)
(* The availability checker: check_files_available (serve.rs:225-240) and  *)
(* its earlier form check_available (main.rs:414-434).                     *)
(***************************************************************************)
\* serve.rs:234, main.rs:428
CONCURRENT_REQUESTS == 5

Variants == {"serve", "main"}

\* what a HEAD request can come back with: Ok(r) with status 200, Ok(r)
\* with another status, or Err(_)
Outcomes == {"200", "404", "error"}

\* main.rs:103-111: a FilesFor row as BirdDb::files_for builds it
FilesFor(k) ==
    [when |-> k, confidence |-> MaxFiles - k, file_name |-> k,
     spectrogram_url |-> <<"png", k>>, audio_url |-> <<"wav", k>>,
     available |-> "None"]

\* the lists the checker is called with
InputLists ==
    {[i \in 1 .. n |-> FilesFor(i)] : n \in 0 .. MaxFiles}
        \cup {[i \in 1 .. n |-> FilesFor(n + 1 - i)] : n \in 0 .. MaxFiles}

Some(b) == IF b THEN "Some(true)" ELSE "Some(false)"

\* main.rs:113-120: FilesFor::into_with_available
into_with_available(f, available) == [f EXCEPT !.available = Some(available)]

\* serve.rs:198-206: head_url
head_url(outcome) == outcome = "200"

\* serve.rs:226 probes the spectrogram and then the audio URL;
\* main.rs:415 probes the spectrogram URL only
ProbesAudio(v) == v = "serve"

NoProbes == [spectrogram |-> "none", audio |-> "none"]

AInit ==
    /\ variant \in Variants
    /\ files \in InputLists
    /\ nextIn = 1
    /\ nextOut = 1
    /\ inprog = << >>
    /\ collected = <<>>
    /\ apc = "running"
    /\ probes = [i \in 1 .. Len(files) |-> NoProbes]
    /\ outOfOrder = FALSE

\* probes that have been sent and not answered
InFlight == {i \in DOMAIN inprog : inprog[i].stage \in {"spectrogram", "audio"}}

\* Buffered::poll_next: while in_progress_queue.len() < max
CanPullOffByOne == Cardinality(DOMAIN inprog) <= CONCURRENT_REQUESTS

CanPull == Cardinality(DOMAIN inprog) < CONCURRENT_REQUESTS

\* FuturesOrdered yields the output whose index is next, a FuturesUnordered
\* would yield any finished one
ReadyToYieldUnordered == {i \in DOMAIN inprog : inprog[i].stage = "done"}

ReadyToYield ==
    {i \in DOMAIN inprog : inprog[i].stage = "done" /\ i = nextOut}

\* serve.rs:235-237: stream::iter yields the next row, map() makes its
\* future and Buffered pushes it on its queue
Pull ==
    /\ apc = "running"
    /\ nextIn <= Len(files)
    /\ CanPull
    /\ inprog' = (nextIn :> [file |-> files[nextIn], stage |-> "created"])
                     @@ inprog
    /\ nextIn' = nextIn + 1
    /\ UNCHANGED <<variant, files, nextOut, collected, apc, probes, outOfOrder>>
    /\ UNCHANGED notA

\* serve.rs:226 / main.rs:415: the first poll of the future sends the HEAD
\* request for the spectrogram URL
StartProbe ==
    /\ apc = "running"
    /\ \E i \in DOMAIN inprog :
         /\ inprog[i].stage = "created"
         /\ inprog' = [inprog EXCEPT ![i].stage = "spectrogram"]
    /\ UNCHANGED <<variant, files, nextIn, nextOut, collected, apc, probes,
                   outOfOrder>>
    /\ UNCHANGED notA

\* a finished check with an unfinished earlier one in the queue
FinishesEarly(i) ==
    \E j \in DOMAIN inprog : j < i /\ inprog[j].stage # "done"

\* serve.rs:226-227 / main.rs:415-421: the answer to the spectrogram probe
SpectrogramReply ==
    /\ apc = "running"
    /\ \E i \in DOMAIN inprog, o \in Outcomes :
         /\ inprog[i].stage = "spectrogram"
         /\ probes' = [probes EXCEPT ![i].spectrogram =
                            IF head_url(o) THEN "ok" ELSE "fail"]
         /\ IF head_url(o) /\ ProbesAudio(variant)
              THEN /\ inprog' = [inprog EXCEPT ![i].stage = "audio"]
                   /\ UNCHANGED outOfOrder
              ELSE /\ inprog' = [inprog EXCEPT
                          ![i] = [file |-> into_with_available(
                                               inprog[i].file, head_url(o)),
                                  stage |-> "done"]]
                   /\ outOfOrder' = (outOfOrder \/ FinishesEarly(i))
    /\ UNCHANGED <<variant, files, nextIn, nextOut, collected, apc>>
    /\ UNCHANGED notA

\* serve.rs:226-227: the answer to the audio probe
AudioReply ==
    /\ apc = "running"
    /\ \E i \in DOMAIN inprog, o \in Outcomes :
         /\ inprog[i].stage = "audio"
         /\ probes' = [probes EXCEPT ![i].audio =
                            IF head_url(o) THEN "ok" ELSE "fail"]
         /\ inprog' = [inprog EXCEPT
                ![i] = [file |-> into_with_available(inprog[i].file,
                                                     head_url(o)),
                        stage |-> "done"]]
         /\ outOfOrder' = (outOfOrder \/ FinishesEarly(i))
    /\ UNCHANGED <<variant, files, nextIn, nextOut, collected, apc>>
    /\ UNCHANGED notA

\* serve.rs:237-238: Buffered yields the next output and collect() pushes it
Yield ==
    /\ apc = "running"
    /\ \E i \in ReadyToYield :
         /\ collected' = Append(collected, inprog[i].file)
         /\ inprog' = [j \in DOMAIN inprog \ {i} |-> inprog[j]]
    /\ nextOut' = nextOut + 1
    /\ UNCHANGED <<variant, files, nextIn, apc, probes, outOfOrder>>
    /\ UNCHANGED notA

\* serve.rs:235-239: the stream is done and the queue empty: Ok(vec)
Return ==
    /\ apc = "running"
    /\ nextIn > Len(files)
    /\ DOMAIN inprog = {}
    /\ apc' = "returned"
    /\ UNCHANGED <<variant, files, nextIn, nextOut, inprog, collected, probes,
                   outOfOrder>>
    /\ UNCHANGED notA

ANext ==
    \/ Pull
    \/ StartProbe
    \/ SpectrogramReply
    \/ AudioReply
    \/ Yield
    \/ Return

\* the checker before it is called
AIdle ==
    /\ variant = "serve"
    /\ files = <<>>
    /\ nextIn = 1
    /\ nextOut = 1
    /\ inprog = << >>
    /\ collected = <<>>
    /\ apc = "running"
    /\ probes = <<>>
    /\ outOfOrder = FALSE

\* the tailer before it is started
WIdle ==
    /\ WInit
    /\ file = <<>>

(***************************************************************************)
(* Properties of the availability checker.                                 *)
(***************************************************************************)
\* the candidate is the input candidate, changed in its flag only
Annotated(result, input) ==
    /\ result.available \in {Some(TRUE), Some(FALSE)}
    /\ [result EXCEPT !.available = "None"] = input

\* C5: whatever the completion order of the probes, the checker returns
\* exactly as many candidates as it was given and output position i holds
\* input candidate i, unchanged except for its availability flag.
C5_SameLengthSameOrder ==
    /\ Len(collected) <= Len(files)
    /\ \A i \in 1 .. Len(collected) : Annotated(collected[i], files[i])
    /\ apc = "returned" => Len(collected) = Len(files)

\* C5 witness: a call with more candidates than the bound has returned and
\* some check finished before an earlier one
C5_Witness ==
    /\ apc = "returned"
    /\ Len(files) > CONCURRENT_REQUESTS
    /\ outOfOrder

\* C6: at most CONCURRENT_REQUESTS probes are in flight, and a candidate
\* beyond the bound is in the queue only once an earlier candidate's check
\* has finished.
C6_BoundedProbes ==
    /\ Cardinality(InFlight) <= CONCURRENT_REQUESTS
    /\ \A i \in DOMAIN inprog :
         i > CONCURRENT_REQUESTS
             => \E j \in 1 .. (i - 1) :
                    j \notin DOMAIN inprog \/ inprog[j].stage = "done"

\* C6 witness: the bound is reached with a candidate beyond it probing
C6_Witness ==
    /\ Cardinality(InFlight) = CONCURRENT_REQUESTS
    /\ \E i \in InFlight : i > CONCURRENT_REQUESTS

\* the flag of candidate i, once its check has finished
Flag(i) ==
    IF i <= Len(collected) THEN collected[i].available
    ELSE IF i \in DOMAIN inprog /\ inprog[i].stage = "done"
         THEN inprog[i].file.available
    ELSE "None"

\* C7: the flag is true only if both the spectrogram probe and the audio
\* probe reported success, it is false once either probe failed, and the
\* checker never returns an error.
C7_TrueOnlyIfBothProbesSucceed ==
    /\ \A i \in 1 .. Len(files) :
         /\ Flag(i) = Some(TRUE)
              => probes[i].spectrogram = "ok" /\ probes[i].audio = "ok"
         /\ (probes[i].spectrogram = "fail" \/ probes[i].audio = "fail")
              => Flag(i) = Some(FALSE)
    /\ apc \in {"running", "returned"}

(***************************************************************************)
(* BirdDateAndTime (main.rs:26-61) in the zone chrono_tz::US::Pacific.     *)
(* Instants and civil times are minutes since 2023-01-01 00:00; a date is  *)
(* the day of the year 2023, counted from 0.                               *)
(***************************************************************************)
\* UTC offsets of US/Pacific, in minutes
PST == 0 - 480

PDT == 0 - 420

\* 2023-03-12 (day 70): 02:00 PST = 10:00 UTC, clocks go to 03:00 PDT
SpringDay == 70

SpringForwardUtc == SpringDay * 1440 + 600

\* 2023-11-05 (day 308): 02:00 PDT = 09:00 UTC, clocks go back to 01:00 PST
FallDay == 308

FallBackUtc == FallDay * 1440 + 540

\* the offset in force at a UTC instant
OffsetAt(u) ==
    IF u >= SpringForwardUtc /\ u < FallBackUtc THEN PDT ELSE PST

\* the dates and times of day the constructors are called with
Dates ==
    ((SpringDay - DaysAround) .. (SpringDay + DaysAround))
        \cup ((FallDay - DaysAround) .. (FallDay + DaysAround))

Times == {h * 60 + m : h \in 0 .. 23, m \in {0, 30}}

\* main.rs:53: NaiveTime::MIN
NaiveTimeMIN == 0

\* main.rs:33: NaiveDateTime::new(date, time)
NaiveDateTime(date, time) == date * 1440 + time

NoDateTime == [datetime |-> 0, offset |-> 0]

\* main.rs:34: no_tz.and_local_timezone(Pacific): the LocalResult of the
\* instants, earliest first, whose civil reading in the zone is n
and_local_timezone(n) ==
    LET early == [datetime |-> n - PDT, offset |-> PDT]
        late == [datetime |-> n - PST, offset |-> PST]
        okE == OffsetAt(early.datetime) = PDT
        okL == OffsetAt(late.datetime) = PST
    IN  IF okE /\ okL
          THEN [kind |-> "Ambiguous", min |-> early, max |-> late]
        ELSE IF okE THEN [kind |-> "Single", min |-> early, max |-> early]
        ELSE IF okL THEN [kind |-> "Single", min |-> late, max |-> late]
        ELSE [kind |-> "None", min |-> NoDateTime, max |-> NoDateTime]

\* main.rs:35: LocalResult::single
single(lr) ==
    IF lr.kind = "Single" THEN [some |-> TRUE, v |-> lr.min]
    ELSE [some |-> FALSE, v |-> NoDateTime]

\* LocalResult::latest
latest(lr) ==
    IF lr.kind = "None" THEN [some |-> FALSE, v |-> NoDateTime]
    ELSE [some |-> TRUE, v |-> lr.max]

\* main.rs:36: LocalResult::earliest
earliest(lr) ==
    IF lr.kind = "None" THEN [some |-> FALSE, v |-> NoDateTime]
    ELSE [some |-> TRUE, v |-> lr.min]

\* main.rs:40: riverside.with_timezone(&Utc)
with_timezone_Utc(dt) == [datetime |-> dt.datetime, offset |-> 0]

\* main.rs:32-43: BirdDateAndTime::new_naive; expect() panics on None
new_naive(date, time) ==
    LET no_tz == NaiveDateTime(date, time)
        pacific == and_local_timezone(no_tz)
        best_case == single(pacific)
        riverside == IF best_case.some THEN best_case ELSE earliest(pacific)
    IN  IF riverside.some
          THEN [kind |-> "Ok", utc |-> with_timezone_Utc(riverside.v),
                local |-> riverside.v]
          ELSE [kind |-> "panic", utc |-> NoDateTime, local |-> NoDateTime]

TInit ==
    /\ tdate \in Dates
    /\ ttime \in Times
    /\ tpc = "input"
    /\ tres = [kind |-> "none", utc |-> NoDateTime, local |-> NoDateTime]

\* main.rs:45-49: BirdDateAndTime::new on well-formed date and time text
New ==
    /\ tpc = "input"
    /\ tres' = new_naive(tdate, ttime)
    /\ tpc' = "done"
    /\ UNCHANGED <<tdate, ttime>>
    /\ UNCHANGED notT

\* main.rs:51-54: BirdDateAndTime::new_date_only
NewDateOnly ==
    /\ tpc = "input"
    /\ ttime' = NaiveTimeMIN
    /\ tres' = new_naive(tdate, NaiveTimeMIN)
    /\ tpc' = "done"
    /\ UNCHANGED tdate
    /\ UNCHANGED notT

TNext ==
    \/ New
    \/ NewDateOnly

\* no constructor call pending
TIdle ==
    /\ tdate = SpringDay
    /\ ttime = NaiveTimeMIN
    /\ tpc = "input"
    /\ tres = [kind |-> "none", utc |-> NoDateTime, local |-> NoDateTime]

(***************************************************************************)
(* Properties of time resolution.                                          *)
(***************************************************************************)
\* the UTC instants whose civil time in the zone is n
InstantsOf(n) == {u \in (n + 420) .. (n + 480) : u + OffsetAt(u) = n}

\* the civil time a zoned value shows
CivilOf(dt) == dt.datetime + dt.offset

Min(S) == CHOOSE x \in S : \A y \in S : x <= y

\* C8: for a civil time that does not exist in the zone, the constructor
\* returns the InvalidLocalTime error: no panic, no nearby instant.
C8_GapIsInvalidLocalTime ==
    (tpc = "done" /\ InstantsOf(NaiveDateTime(tdate, ttime)) = {})
        => tres.kind = "InvalidLocalTime"

\* C9: a civil time that maps to two instants resolves to the earlier one,
\* an unambiguous one to its single instant, and the stored utc is the
\* stored local value converted to UTC.
C9_EarlierInstant ==
    LET n == NaiveDateTime(tdate, ttime)
    IN  (tpc = "done" /\ InstantsOf(n) # {})
            => /\ tres.kind = "Ok"
               /\ tres.utc.datetime = Min(InstantsOf(n))
               /\ tres.utc.offset = 0
               /\ CivilOf(tres.local) = n
               /\ tres.utc.datetime = CivilOf(tres.local) - tres.local.offset

\* C9 witness: a civil time of the repeated hour has been resolved
C9_Witness ==
    /\ tpc = "done"
    /\ Cardinality(InstantsOf(NaiveDateTime(tdate, ttime))) = 2
    /\ tres.kind = "Ok"

(***************************************************************************)
(* BirdLog::parse_entry and BirdLog::publish_all (publish.rs:81-140) and   *)
(* the conversion of a LogEntry into a DataPoint (publish.rs:155-163).     *)
(* A line is the sequence of its semicolon-separated fields; a field is    *)
(* the text of a date, of a time, of a number (with the value n it parses  *)
(* to), or other text s.  Confidences are in hundredths.                   *)
(***************************************************************************)
DateField(d) == [t |-> "date", n |-> d, s |-> ""]

TimeField(m) == [t |-> "time", n |-> m, s |-> ""]

FloatField(x) == [t |-> "float", n |-> x, s |-> ""]

TextField(x) == [t |-> "text", n |-> 0, s |-> x]

\* 2023-04-01;06:15:00;Corvus brachyrhynchos;American Crow;0.87
CrowLine ==
    <<DateField(90), TimeField(375), TextField("Corvus brachyrhynchos"),
      TextField("American Crow"), FloatField(87)>>

\* 2023-11-05;01:30:00;Poecile atricapillus;Black-capped Chickadee;0.5
ChickadeeLine ==
    <<DateField(FallDay), TimeField(90), TextField("Poecile atricapillus"),
      TextField("Black-capped Chickadee"), FloatField(50)>>

\* the lines a log file may hold after its header
SampleLines ==
    { CrowLine,
      ChickadeeLine,
      \* a sixth field
      Append(CrowLine, TextField("extra")),
      \* four fields
      SubSeq(CrowLine, 1, 4),
      \* an empty line
      <<TextField("")>>,
      \* a date that is no date
      [CrowLine EXCEPT ![1] = TextField("yesterday")],
      \* a confidence that is no number
      [CrowLine EXCEPT ![5] = TextField("high")],
      \* 2023-03-12;02:30:00: a time of the skipped hour
      [CrowLine EXCEPT ![1] = DateField(SpringDay), ![2] = TimeField(150)] }

HeaderLine ==
    <<TextField("Date"), TextField("Time"), TextField("Sci_Name"),
      TextField("Com_Name"), TextField("Confidence")>>

\* what io::Lines yields for one line: Ok(line), or Err for bytes that are
\* not UTF-8
ReadOk(line) == [ok |-> TRUE, fields |-> line]

ReadErr == [ok |-> FALSE, fields |-> <<>>]

ReadItems == {ReadOk(l) : l \in SampleLines} \cup {ReadErr}

\* the files publish_all is run on: a header and up to MaxLines lines
LogFiles == {<<ReadOk(HeaderLine)>> \o body : body \in SeqsUpTo(ReadItems, MaxLines)}

NoEntry ==
    [date_time |-> NoDateTime, common_name |-> "", scientific_name |-> "",
     confidence |-> 0]

\* publish.rs:81-97: parse_entry; indexing a missing field panics, a failed
\* conversion returns the error
parse_entry(fields) ==
    LET panic == [kind |-> "panic", entry |-> NoEntry]
        err == [kind |-> "Err", entry |-> NoEntry]
    IN  IF fields[1].t # "date" THEN err
        ELSE IF Len(fields) < 2 THEN panic
        ELSE IF fields[2].t # "time" THEN err
        ELSE IF Len(fields) < 4 THEN panic
        ELSE IF Len(fields) < 5 THEN panic
        ELSE IF fields[5].t # "float" THEN err
        ELSE LET r == new_naive(fields[1].n, fields[2].n)
             IN  IF r.kind # "Ok" THEN panic
                 ELSE [kind |-> "Ok",
                       entry |-> [date_time |-> r.utc,
                                  common_name |-> fields[4].s,
                                  scientific_name |-> fields[3].s,
                                  confidence |-> fields[5].n]]

\* publish.rs:155-163: impl Into<DataPoint> for LogEntry
into_DataPoint(e) ==
    [measurement |-> "birds",
     tags |-> {<<"station", "backyard">>},
     fields |-> {<<e.common_name, e.confidence>>},
     timestamp |-> "None"]

\* publish.rs:108: lines.skip(1): the first item the loop sees
FirstDataLine == 2

\* publish.rs:116: `?` on the result of client.write(...).await
OnPublishErrorSkip == "loop"

OnPublishError == "exit"

PInit ==
    /\ plines \in LogFiles
    /\ pidx = 1
    /\ ppc = "start"
    /\ pstatus = "running"
    /\ pending = <<>>
    /\ written = <<>>
    /\ attempts = <<>>

\* publish.rs:100-108: open the file, make the client, skip the header
PublishStart ==
    /\ ppc = "start"
    /\ ppc' = "loop"
    /\ pidx' = FirstDataLine
    /\ UNCHANGED <<plines, pstatus, pending, written, attempts>>
    /\ UNCHANGED notP

\* publish.rs:100: read_lines(&self.path)? fails
PublishStartFail ==
    /\ ppc = "start"
    /\ ppc' = "exit"
    /\ pstatus' = "failed_open"
    /\ UNCHANGED <<plines, pidx, pending, written, attempts>>
    /\ UNCHANGED notP

\* publish.rs:108-116: take the next line; an unreadable one is passed
\* over, a readable one is parsed, converted and handed to client.write
NextLine ==
    /\ ppc = "loop"
    /\ pidx <= Len(plines)
    /\ pidx' = pidx + 1
    /\ IF ~plines[pidx].ok
         THEN UNCHANGED <<ppc, pstatus, pending, attempts>>
         ELSE LET r == parse_entry(plines[pidx].fields)
              IN  IF r.kind = "Ok"
                    THEN /\ ppc' = "writing"
                         /\ pending' = <<into_DataPoint(r.entry)>>
                         /\ attempts' = Append(attempts,
                                               into_DataPoint(r.entry))
                         /\ UNCHANGED pstatus
                    ELSE /\ ppc' = "exit"
                         /\ pstatus' = IF r.kind = "Err" THEN "failed_parse"
                                       ELSE "panicked"
                         /\ UNCHANGED <<pending, attempts>>
    /\ UNCHANGED <<plines, written>>
    /\ UNCHANGED notP

\* publish.rs:116: the awaited write succeeds
WriteOk ==
    /\ ppc = "writing"
    /\ written' = written \o pending
    /\ pending' = <<>>
    /\ ppc' = "loop"
    /\ UNCHANGED <<plines, pidx, pstatus, attempts>>
    /\ UNCHANGED notP

\* publish.rs:116: the awaited write fails
WriteErr ==
    /\ ppc = "writing"
    /\ pending' = <<>>
    /\ ppc' = OnPublishError
    /\ pstatus' = IF OnPublishError = "exit" THEN "failed_publish"
                  ELSE pstatus
    /\ UNCHANGED <<plines, pidx, written, attempts>>
    /\ UNCHANGED notP

\* publish.rs:118,139: the lines are exhausted: Ok(())
PublishEnd ==
    /\ ppc = "loop"
    /\ pidx > Len(plines)
    /\ ppc' = "exit"
    /\ pstatus' = "ok"
    /\ UNCHANGED <<plines, pidx, pending, written, attempts>>
    /\ UNCHANGED notP

PNext ==
    \/ PublishStart
    \/ PublishStartFail
    \/ NextLine
    \/ WriteOk
    \/ WriteErr
    \/ PublishEnd

\* publish_all not running
PIdle ==
    /\ plines = <<ReadOk(HeaderLine)>>
    /\ pidx = 1
    /\ ppc = "start"
    /\ pstatus = "running"
    /\ pending = <<>>
    /\ written = <<>>
    /\ attempts = <<>>

(***************************************************************************)
(* Properties of the batch publisher.                                      *)
(***************************************************************************)
\* every line of the file is readable text
AllReadable == \A i \in 1 .. Len(plines) : plines[i].ok

\* the point of the k-th line after the header
PointOfLine(k) == into_DataPoint(parse_entry(plines[k + 1].fields).entry)

\* a write has failed: a point was handed over and is neither accepted nor
\* being awaited
PublishFailed == Len(attempts) > Len(written) + Len(pending)

\* C10: for a file of readable (UTF-8) lines the points written are, at
\* every moment and in file order, the points of the first lines after the
\* header; one write is awaited at a time, and a failed write ends the run
\* with that error and no further write.
C10_SequentialFailFast ==
    /\ AllReadable =>
         /\ Len(written) <= Len(plines) - 1
         /\ \A k \in 1 .. Len(written) :
              /\ parse_entry(plines[k + 1].fields).kind = "Ok"
              /\ written[k] = PointOfLine(k)
         /\ \A k \in 1 .. Len(attempts) : attempts[k] = PointOfLine(k)
    /\ Len(pending) <= 1
    /\ ppc = "writing" => (Len(pending) = 1 /\ attempts = written \o pending)
    /\ PublishFailed =>
         /\ ppc = "exit"
         /\ pstatus = "failed_publish"
         /\ Len(attempts) = Len(written) + 1

\* C10 witness: a write failed after an earlier one succeeded, with lines
\* of the file still unprocessed
C10_Witness ==
    /\ AllReadable
    /\ PublishFailed
    /\ Len(written) >= 1
    /\ pidx <= Len(plines)

\* publish.rs:171: DateTime::timestamp_nanos, the instant as a count of
\* nanoseconds (kept symbolic: the unit and the instant in minutes)
timestamp_nanos(dt) == <<"ns", dt.datetime>>

\* C12: every point handed to the sink for a line has the measurement
\* "birds", the tag station=backyard, one field named by the line's common
\* name holding its confidence, and the line's resolved UTC instant in
\* nanoseconds as its timestamp.
C12_PointContents ==
    AllReadable =>
        \A k \in 1 .. Len(attempts) :
            LET e == parse_entry(plines[k + 1].fields).entry
            IN  /\ attempts[k].measurement = "birds"
                /\ attempts[k].tags = {<<"station", "backyard">>}
                /\ attempts[k].fields = {<<e.common_name, e.confidence>>}
                /\ attempts[k].timestamp # "None"
                /\ attempts[k].timestamp = timestamp_nanos(e.date_time)

\* exactly five fields, with a date, a time and a number where parse_entry
\* converts them
WellFormed(fields) ==
    /\ Len(fields) = 5
    /\ fields[1].t = "date"
    /\ fields[2].t = "time"
    /\ fields[5].t = "float"

\* the loop has taken a readable line after the header: the last one parsed
ParsedLine == ppc # "start" /\ pidx > FirstDataLine /\ plines[pidx - 1].ok

\* C13: parse_entry returns a ParseError, without panicking, for a line
\* that has not exactly five fields or whose date, time or confidence does
\* not convert, and a record only for a line of five well-formed fields.
C13_ParseErrorAsValue ==
    ParsedLine =>
        LET fields == plines[pidx - 1].fields
        IN  /\ ~WellFormed(fields)
                 => (ppc = "exit" /\ pstatus = "failed_parse")
            /\ pstatus \in {"running", "ok", "failed_publish"}
                 => WellFormed(fields)

Init == WInit /\ AIdle /\ TIdle /\ PIdle

Next == WNext

Spec == Init /\ [][Next]_vars

InitAvail == WIdle /\ AInit /\ TIdle /\ PIdle

SpecAvail == InitAvail /\ [][ANext]_vars

InitTime == WIdle /\ AIdle /\ TInit /\ PIdle

SpecTime == InitTime /\ [][TNext]_vars

InitPublish == WIdle /\ AIdle /\ TIdle /\ PInit

SpecPublish == InitPublish /\ [][PNext]_vars

\* the watch thread is scheduled whenever it has a step to take
SpecFair == Init /\ [][Next]_vars /\ WF_vars(WatchStep)

====
